---- MODULE Spec2Model ----
(***************************************************************************)
(* State-machine model of deep_research_openai.py: the Streamlit script    *)
(* (session state, sidebar key fields, topic field, trigger button), the   *)
(* deep_research tool and run_research_process.                            *)
(*                                                                         *)
(* Streamlit re-executes the whole script on every widget interaction, so  *)
(* an edit of a field is one action that runs the script from the top      *)
(* with the button reading False, and a press of the button is the script  *)
(* run with the button reading True.  That run suspends at the external    *)
(* calls (Runner.run on each agent, FirecrawlApp.deep_research inside the  *)
(* tool); every suspension point is a value of pc.                         *)
(*                                                                         *)
(* Text is modelled as a sequence of tokens, so concatenation is \o and    *)
(* "contains" is a sub-sequence test.  Python values handed back by the    *)
(* crawl service are tagged records (dict, list, str, NoneType), so that   *)
(* an attribute or len() applied to the wrong type raises as in Python.    *)
(* Exceptions are instances of Exception, the class both handlers name.    *)
(***************************************************************************)
EXTENDS Integers, Sequences, FiniteSets, TLC

\* Bounds of the model.
MaxToolCalls == 2      \* tool invocations the agent runtime makes in one run
MaxActivities == 1     \* progress callbacks the crawl service makes in one run

\* Values the user can type into a key field ("" is the empty field).
Keys == {"", "k1", "k2"}
\* Topics the user can type (token sequences; <<>> is the empty field).
Topics == {<<>>, <<"AI">>, <<"AI", " ", "trends">>}
\* Final outputs an agent can produce.
Reports == {<<"REPORT A">>, <<"REPORT B">>}
\* Messages of the exceptions the external services can raise.
Messages == {"boom"}

---------------------------------------------------------------------------
\* Python values.
None == [type |-> "NoneType"]
Str(s) == [type |-> "str", val |-> s]
List(s) == [type |-> "list", elems |-> s]
Dict(items) == [type |-> "dict", items |-> items]
EmptyItems == [k \in {} |-> None]

\* A local variable that is not bound yet, and one that is.
Unset == [bound |-> FALSE]
Bound(v) == [bound |-> TRUE, val |-> v]

\* Truthiness of a str, as in `if google_api_key:`.
KeyTruthy(k) == k /= ""
TopicTruthy(t) == Len(t) > 0

\* str.replace(' ', '_') on a token sequence.
ReplaceSpaces(t) == [i \in 1..Len(t) |-> IF t[i] = " " THEN "_" ELSE t[i]]

\* The download file name: f"{research_topic.replace(' ', '_')}_report.md".
FileName(topic) == ReplaceSpaces(topic) \o <<"_report.md">>

\* s contains sub as a contiguous piece.
Contains(s, sub) ==
    \E i \in 0..(Len(s) - Len(sub)) : SubSeq(s, i + 1, i + Len(sub)) = sub

\* Variant of ElaborationInput: the template names the report but not the topic.
ElaborationInputNoTopic(topic, initial_report) ==
    <<" \n        RESEARCH TOPIC ">>
    \o <<"\n        INITIAL RESEARCH REPORT:\n        ">> \o initial_report
    \o <<"\n        Please enhance the report with additional info, examples and case studies\n        and deeper insights while maintaining its academic rigor and factual accuracy.\n">>

\* The f-string built for agent 2.
ElaborationInput(topic, initial_report) ==
    <<" \n        RESEARCH TOPIC ">> \o topic
    \o <<"\n        INITIAL RESEARCH REPORT:\n        ">> \o initial_report
    \o <<"\n        Please enhance the report with additional info, examples and case studies\n        and deeper insights while maintaining its academic rigor and factual accuracy.\n">>

---------------------------------------------------------------------------
\* The deep_research tool: what the crawl service can hand back.
Placeholder == Str(<<"No final analysis available">>)
SourcesABC == List(<<"a", "b", "c">>)

Responses ==
    { Dict(EmptyItems),
      Dict([data |-> Dict(EmptyItems)]),
      Dict([data |-> Dict([final_analysis |-> Str(<<"X">>)])]),
      Dict([data |-> Dict([sources |-> SourcesABC])]),
      Dict([data |-> Dict([final_analysis |-> Str(<<"X">>), sources |-> SourcesABC])]),
      Dict([data |-> None]),
      Dict([data |-> Dict([sources |-> None])]) }

\* Progress records the service passes to on_activity.
Activities ==
    { Dict([type |-> Str(<<"search">>), message |-> Str(<<"searching">>)]),
      Dict([type |-> Str(<<"search">>)]) }

\* An expression either yields a value or raises.
Value(v) == [raised |-> FALSE, val |-> v]
Raise(msg) == [raised |-> TRUE, msg |-> msg]

AttributeError(type, attr) == "'" \o type \o "' object has no attribute '" \o attr \o "'"
TypeErrorLen(type) == "object of type '" \o type \o "' has no len()"
KeyError(key) == "'" \o key \o "'"

\* dict.get(key, default); an AttributeError on anything that is not a dict.
Get(d, key, default) ==
    IF d.type /= "dict" THEN Raise(AttributeError(d.type, "get"))
    ELSE IF key \in DOMAIN d.items THEN Value(d.items[key])
    ELSE Value(default)

\* d.keys(), in insertion order.
KeyOrder == <<"data", "final_analysis", "sources", "type", "message">>
Keys_(d) ==
    IF d.type /= "dict" THEN Raise(AttributeError(d.type, "keys"))
    ELSE Value(SelectSeq(KeyOrder, LAMBDA k : k \in DOMAIN d.items))

\* len(x).
PyLen(x) ==
    IF x.type = "list" THEN Value(Len(x.elems))
    ELSE IF x.type = "str" THEN Value(Len(x.val))
    ELSE IF x.type = "dict" THEN Value(Cardinality(DOMAIN x.items))
    ELSE Raise(TypeErrorLen(x.type))

\* Elements the script puts on the page.
Write(body) == [kind |-> "write", body |-> body]
Error(body) == [kind |-> "error", body |-> body]
Warning(body) == [kind |-> "warning", body |-> body]
Expander(label, body) == [kind |-> "expander", label |-> label, body |-> body]
Markdown(body) == [kind |-> "markdown", body |-> body]

\* The body of deep_research after the service call has returned `result`:
\* the two debug writes, the extraction and the record returned.  `writes` are
\* the elements written before the body returned or raised.
\* Variant of Extract: result['data'] in place of result.get('data', {}).
ExtractMissingDefault(res) ==
    LET keys == Keys_(res)
        hasData == "data" \in DOMAIN res.items
        dataKeys == IF hasData THEN Keys_(res.items["data"]) ELSE Value(<<>>)
        w1 == <<Write(<<"Result structure:">> \o keys.val)>>
        w2 == IF hasData THEN w1 \o <<Write(<<"Data keys:">> \o dataKeys.val)>> ELSE w1
    IN  IF keys.raised THEN [writes |-> <<>>, outcome |-> keys]
        ELSE IF dataKeys.raised THEN [writes |-> w1, outcome |-> dataKeys]
        ELSE IF ~hasData THEN [writes |-> w2, outcome |-> Raise(KeyError("data"))]
        ELSE LET data == res.items["data"]
                 final_analysis == Get(data, "final_analysis", Placeholder)
                 sources == Get(data, "sources", List(<<>>))
                 source_count == PyLen(sources.val)
             IN  IF source_count.raised THEN [writes |-> w2, outcome |-> source_count]
                 ELSE [writes |-> w2,
                       outcome |-> Value([success |-> TRUE,
                                          final_analysis |-> final_analysis.val,
                                          source_count |-> source_count.val,
                                          sources |-> sources.val])]

Extract(res) ==
    LET keys == Keys_(res)
        hasData == "data" \in DOMAIN res.items
        dataKeys == IF hasData THEN Keys_(res.items["data"]) ELSE Value(<<>>)
        w1 == <<Write(<<"Result structure:">> \o keys.val)>>
        w2 == IF hasData THEN w1 \o <<Write(<<"Data keys:">> \o dataKeys.val)>> ELSE w1
    IN  IF keys.raised THEN [writes |-> <<>>, outcome |-> keys]
        ELSE IF dataKeys.raised THEN [writes |-> w1, outcome |-> dataKeys]
        ELSE LET data == Get(res, "data", Dict(EmptyItems))
                 final_analysis == Get(data.val, "final_analysis", Placeholder)
                 sources == Get(data.val, "sources", List(<<>>))
                 source_count == PyLen(sources.val)
             IN  IF final_analysis.raised THEN [writes |-> w2, outcome |-> final_analysis]
                 ELSE IF sources.raised THEN [writes |-> w2, outcome |-> sources]
                 ELSE IF source_count.raised THEN [writes |-> w2, outcome |-> source_count]
                 ELSE [writes |-> w2,
                       outcome |-> Value([success |-> TRUE,
                                          final_analysis |-> final_analysis.val,
                                          source_count |-> source_count.val,
                                          sources |-> sources.val])]

\* The except clause of deep_research: the record returned for exception msg.
FailureRecord(msg) == [error |-> msg, success |-> FALSE]
DeepResearchError(msg) == Error(<<"Deep research error: ", msg>>)

\* on_activity: f"[{activity['type']}] {activity['message']}".
OnActivity(activity) ==
    IF "type" \notin DOMAIN activity.items THEN Raise(KeyError("type"))
    ELSE IF "message" \notin DOMAIN activity.items THEN Raise(KeyError("message"))
    ELSE Value(Write(<<"[">> \o activity.items["type"].val \o <<"] ">>
                     \o activity.items["message"].val))

---------------------------------------------------------------------------
\* The script's top: session state, sidebar, button.

\* Variant of SessionUpdate: the field is stored unconditionally.
SessionUpdateAlways(stored, field) == field
\* Variant of SessionUpdate: a key is stored only while none is stored yet.
SessionUpdateOnce(stored, field) == IF stored = "" THEN field ELSE stored
\* `if google_api_key: st.session_state.google_api_key = google_api_key`
SessionUpdate(stored, field) == IF KeyTruthy(field) THEN field ELSE stored

\* Variant of ButtonDisabled: the crawl key is left out of the condition.
ButtonDisabledNoFirecrawl(g, f, t) == ~(KeyTruthy(g) /\ TopicTruthy(t))
\* disabled=not (google_api_key and firecrawl_api_key and research_topic)
ButtonDisabled(g, f, t) == ~(KeyTruthy(g) /\ KeyTruthy(f) /\ TopicTruthy(t))

SpinnerAgent1 == "Agent1 Conducting initial research..."
SpinnerAgent2 == "Agent2 Enhancing the research report..."
SpinnerCrawl == "Performing deep research... This may take a while..."
ExpanderLabel == "Viewing Initial Research Report (Agent 1 Output)"

VARIABLES
    google_api_key,      \* value of the "Google API Key" field
    firecrawl_api_key,   \* value of the "Firecrawl API Key" field
    research_topic,      \* value of the topic field
    session_state,       \* st.session_state: the two stored keys
    external_client,     \* the AsyncOpenAI client built by this script run
    button_disabled,     \* the button as this script run rendered it
    pc,                  \* where the script run stands
    spinners,            \* stack of the st.spinner blocks the run is inside
    display,             \* elements this script run has put on the page
    report_placeholder,  \* the st.empty() slot of the handler
    download_button,     \* the download control
    runner_calls,        \* the Runner.run invocations of this script run
    research_result,     \* run_research_process's research_result
    initial_report,      \* run_research_process's initial_report
    elaboration_result,  \* run_research_process's elaboration_result
    enhanced_report,     \* the handler's enhanced_report
    fire_crawl_app,      \* deep_research's fire_crawl_app
    crawl_request,       \* arguments of the service call in flight
    result,              \* deep_research's result
    tool_e,              \* deep_research's e
    tool_returns,        \* the records deep_research returned in this run
    activity_count       \* progress callbacks made in this run

vars == <<google_api_key, firecrawl_api_key, research_topic, session_state,
          external_client, button_disabled, pc, spinners, display,
          report_placeholder, download_button, runner_calls, research_result,
          initial_report, elaboration_result, enhanced_report, fire_crawl_app, crawl_request, result, tool_e,
          tool_returns, activity_count>>

\* The script run has ended (the page is rendered and waits for the user).
Ended == pc \in {"rendered", "done", "failed"}

\* Lines 19-59 and 66-67 and the button of line 178, with the fields holding g, f, t.
ScriptTop(g, f, t) ==
    /\ google_api_key' = g
    /\ firecrawl_api_key' = f
    /\ research_topic' = t
    /\ session_state' =
          [google_api_key |-> SessionUpdate(session_state.google_api_key, g),
           firecrawl_api_key |-> SessionUpdate(session_state.firecrawl_api_key, f)]
    /\ external_client' = [api_key |-> session_state'.google_api_key]
    /\ button_disabled' = ButtonDisabled(g, f, t)

\* A script run starts from a blank page and fresh locals.
FreshLocals ==
    /\ research_result' = Unset
    /\ initial_report' = Unset
    /\ elaboration_result' = Unset
    /\ enhanced_report' = Unset
    /\ fire_crawl_app' = Unset
    /\ crawl_request' = Unset
    /\ result' = Unset
    /\ tool_e' = Unset
    /\ tool_returns' = <<>>
    /\ activity_count' = 0

\* A script run in which the button reads False: nothing below line 178 runs.
Rerun(g, f, t) ==
    /\ Ended
    /\ ScriptTop(g, f, t)
    /\ FreshLocals
    /\ pc' = "rendered"
    /\ spinners' = <<>>
    /\ display' = <<>>
    /\ report_placeholder' = Unset
    /\ download_button' = Unset
    /\ runner_calls' = <<>>

EditGoogleKey(v) == v /= google_api_key /\ Rerun(v, firecrawl_api_key, research_topic)
EditFirecrawlKey(v) == v /= firecrawl_api_key /\ Rerun(google_api_key, v, research_topic)
EditTopic(v) == v /= research_topic /\ Rerun(google_api_key, firecrawl_api_key, v)

Init ==
    /\ google_api_key = ""
    /\ firecrawl_api_key = ""
    /\ research_topic = <<>>
    /\ session_state = [google_api_key |-> "", firecrawl_api_key |-> ""]
    /\ external_client = [api_key |-> ""]
    /\ button_disabled = TRUE
    /\ pc = "rendered"
    /\ spinners = <<>>
    /\ display = <<>>
    /\ report_placeholder = Unset
    /\ download_button = Unset
    /\ runner_calls = <<>>
    /\ research_result = Unset
    /\ initial_report = Unset
    /\ elaboration_result = Unset
    /\ enhanced_report = Unset
    /\ fire_crawl_app = Unset
    /\ crawl_request = Unset
    /\ result = Unset
    /\ tool_e = Unset
    /\ tool_returns = <<>>
    /\ activity_count = 0

---------------------------------------------------------------------------
\* The button handler and run_research_process.

RunnerCall(agent, input, client) ==
    [agent |-> agent, input |-> input, api_key |-> client.api_key]

HandlerError(msg) == Error(<<"An error occurred: ", msg>>)

\* A press of the (enabled) button: the script runs from the top with the
\* button reading True, through the handler's checks, st.empty() and the first
\* spinner, up to the invocation of agent 1.
PressButton ==
    /\ Ended
    /\ ~button_disabled
    /\ ScriptTop(google_api_key, firecrawl_api_key, research_topic)
    /\ FreshLocals
    /\ download_button' = Unset
    /\ IF ~KeyTruthy(google_api_key) /\ KeyTruthy(firecrawl_api_key)
       THEN /\ display' = <<Warning(<<"Please enter your Google or Firecrawl API Key.">>)>>
            /\ report_placeholder' = Unset
            /\ spinners' = <<>>
            /\ runner_calls' = <<>>
            /\ pc' = "rendered"
       ELSE IF ~TopicTruthy(research_topic)
       THEN /\ display' = <<Warning(<<"Please enter a research topic.">>)>>
            /\ report_placeholder' = Unset
            /\ spinners' = <<>>
            /\ runner_calls' = <<>>
            /\ pc' = "rendered"
       ELSE /\ display' = <<>>
            /\ report_placeholder' = Bound(None)
            /\ spinners' = <<SpinnerAgent1>>
            /\ runner_calls' =
                  <<RunnerCall("research_agent", research_topic, external_client')>>
            /\ pc' = "agent1"

\* Arguments the agent runtime gives the tool (the instructions ask for 3, 180, 10).
ToolArgs(topic) ==
    { [query |-> topic, max_depth |-> d, time_limit |-> 180, max_urls |-> 10] :
        d \in {1, 3} }

Pop(stack) == SubSeq(stack, 1, Len(stack) - 1)

\* Variant of ToolExcept: no except clause, the exception leaves the tool and
\* the agent invocation and reaches the handler.
ToolExceptPropagates(writes, msg) ==
    /\ display' = (display \o writes) \o <<HandlerError(msg)>>
    /\ tool_e' = Bound(msg)
    /\ tool_returns' = tool_returns
    /\ spinners' = <<>>
    /\ crawl_request' = Unset
    /\ pc' = "failed"
    /\ UNCHANGED <<runner_calls, research_result, initial_report, elaboration_result>>

\* deep_research's except clause, after `writes` were put on the page.
ToolExcept(writes, msg) ==
    /\ display' = (display \o writes) \o <<DeepResearchError(msg)>>
    /\ tool_e' = Bound(msg)
    /\ tool_returns' = Append(tool_returns, FailureRecord(msg))
    /\ spinners' = IF pc = "crawl" THEN Pop(spinners) ELSE spinners
    /\ crawl_request' = Unset
    /\ pc' = "agent1"
    /\ UNCHANGED <<runner_calls, research_result, initial_report, elaboration_result>>

ScriptUnchanged ==
    UNCHANGED <<google_api_key, firecrawl_api_key, research_topic, session_state,
                external_client, button_disabled>>

\* Agent 1's runtime invokes the tool and FirecrawlApp(...) raises.
ToolConstructRaise(msg) ==
    /\ pc = "agent1"
    /\ Len(tool_returns) < MaxToolCalls
    /\ fire_crawl_app' = Unset
    /\ result' = Unset
    /\ ToolExcept(<<>>, msg)
    /\ ScriptUnchanged
    /\ UNCHANGED <<report_placeholder, download_button, enhanced_report, activity_count>>

\* Agent 1's runtime invokes the tool: the client is built, the spinner is
\* entered and the service call is made.
ToolCrawlStart(args) ==
    /\ pc = "agent1"
    /\ Len(tool_returns) < MaxToolCalls
    /\ fire_crawl_app' = Bound([api_key |-> session_state.firecrawl_api_key])
    /\ crawl_request' =
          Bound([query |-> args.query,
                 params |-> [maxDepth |-> args.max_depth,
                             timeLimit |-> args.time_limit,
                             maxUrls |-> args.max_urls]])
    /\ result' = Unset
    /\ tool_e' = Unset
    /\ spinners' = Append(spinners, SpinnerCrawl)
    /\ pc' = "crawl"
    /\ ScriptUnchanged
    /\ UNCHANGED <<display, report_placeholder, download_button, runner_calls,
                   research_result, initial_report, elaboration_result,
                   enhanced_report, tool_returns, activity_count>>

\* The service calls on_activity; a KeyError in it leaves the service call
\* and reaches the except clause.
CrawlActivity(activity) ==
    /\ pc = "crawl"
    /\ activity_count < MaxActivities
    /\ activity_count' = activity_count + 1
    /\ LET written == OnActivity(activity)
       IN  IF written.raised
           THEN ToolExcept(<<>>, written.msg)
           ELSE /\ display' = Append(display, written.val)
                /\ UNCHANGED <<tool_e, tool_returns, spinners, crawl_request, pc,
                               runner_calls, research_result, initial_report,
                               elaboration_result>>
    /\ ScriptUnchanged
    /\ UNCHANGED <<report_placeholder, download_button, enhanced_report,
                   fire_crawl_app, result>>

\* The service call raises.
CrawlRaise(msg) ==
    /\ pc = "crawl"
    /\ ToolExcept(<<>>, msg)
    /\ ScriptUnchanged
    /\ UNCHANGED <<report_placeholder, download_button, enhanced_report,
                   fire_crawl_app, result, activity_count>>

\* The service call returns: lines 94-107, or the except clause when they raise.
CrawlReturn(response) ==
    /\ pc = "crawl"
    /\ result' = Bound(response)
    /\ LET body == Extract(response)
       IN  IF body.outcome.raised
           THEN ToolExcept(body.writes, body.outcome.msg)
           ELSE /\ display' = display \o body.writes
                /\ tool_returns' = Append(tool_returns, body.outcome.val)
                /\ tool_e' = Unset
                /\ spinners' = Pop(spinners)
                /\ crawl_request' = Unset
                /\ pc' = "agent1"
                /\ UNCHANGED <<runner_calls, research_result, initial_report, elaboration_result>>
    /\ ScriptUnchanged
    /\ UNCHANGED <<report_placeholder, download_button, enhanced_report,
                   fire_crawl_app, activity_count>>

\* Agent 1 completes: the first spinner is left, the expander is shown, the
\* second spinner wraps the f-string only, and agent 2 is invoked.
Agent1Return(output) ==
    /\ pc = "agent1"
    /\ research_result' = Bound([final_output |-> output])
    /\ initial_report' = Bound(output)
    /\ display' = Append(display, Expander(ExpanderLabel, output))
    /\ spinners' = <<>>
    /\ runner_calls' =
          Append(runner_calls,
                 RunnerCall("elaborative_agent",
                            ElaborationInput(research_topic, output),
                            external_client))
    /\ pc' = "agent2"
    /\ ScriptUnchanged
    /\ UNCHANGED <<report_placeholder, download_button, elaboration_result,
                   enhanced_report, fire_crawl_app, crawl_request, result, tool_e,
                   tool_returns, activity_count>>

\* Variant of AgentRaise: the except clause also fills the placeholder and the
\* download with what the run has so far.
AgentRaiseShowsPartial(msg) ==
    /\ display' = Append(display, HandlerError(msg))
    /\ spinners' = <<>>
    /\ pc' = "failed"
    /\ report_placeholder' = Bound(Markdown(<<>>))
    /\ download_button' = Bound([label |-> "Download Report", data |-> <<>>,
                                 file_name |-> FileName(research_topic),
                                 mime |-> "text/markdown"])
    /\ ScriptUnchanged
    /\ UNCHANGED <<runner_calls, research_result, initial_report,
                   elaboration_result, enhanced_report, fire_crawl_app,
                   crawl_request, result, tool_e, tool_returns, activity_count>>

\* An agent invocation raises: the exception leaves run_research_process and
\* asyncio.run and is caught at line 205.
AgentRaise(msg) ==
    /\ display' = Append(display, HandlerError(msg))
    /\ spinners' = <<>>
    /\ pc' = "failed"
    /\ ScriptUnchanged
    /\ UNCHANGED <<report_placeholder, download_button, runner_calls,
                   research_result, initial_report, elaboration_result,
                   enhanced_report, fire_crawl_app, crawl_request, result, tool_e,
                   tool_returns, activity_count>>

\* Variant of Agent1Raise: the exception is swallowed and agent 2 is invoked
\* with an empty report.
Agent1RaiseSwallowed(msg) ==
    /\ pc = "agent1"
    /\ display' = Append(display, HandlerError(msg))
    /\ spinners' = <<>>
    /\ runner_calls' =
          Append(runner_calls,
                 RunnerCall("elaborative_agent",
                            ElaborationInput(research_topic, <<>>),
                            external_client))
    /\ pc' = "agent2"
    /\ ScriptUnchanged
    /\ UNCHANGED <<report_placeholder, download_button, research_result,
                   initial_report, elaboration_result, enhanced_report,
                   fire_crawl_app, crawl_request, result, tool_e, tool_returns,
                   activity_count>>

\* Runner.run(research_agent, topic) raises.
Agent1Raise(msg) == pc = "agent1" /\ AgentRaise(msg)

\* Variant of Agent2Raise: a failed elaboration is invoked again.
Agent2RaiseRetry(msg) ==
    /\ pc = "agent2"
    /\ Len(runner_calls) < 3
    /\ runner_calls' = Append(runner_calls, runner_calls[Len(runner_calls)])
    /\ ScriptUnchanged
    /\ UNCHANGED <<pc, spinners, display, report_placeholder, download_button,
                   research_result, initial_report, elaboration_result,
                   enhanced_report, fire_crawl_app, crawl_request, result, tool_e,
                   tool_returns, activity_count>>

\* Runner.run(elaborative_agent, elaboration_input) raises.
Agent2Raise(msg) == pc = "agent2" /\ AgentRaise(msg)

DownloadButton(report, topic) ==
    [label |-> "Download Report", data |-> report, file_name |-> FileName(topic),
     mime |-> "text/markdown"]

\* Agent 2 completes: its output is returned, put in the placeholder (over the
\* heading written there first) and offered for download.
Agent2Return(output) ==
    /\ pc = "agent2"
    /\ elaboration_result' = Bound([final_output |-> output])
    /\ enhanced_report' = Bound(output)
    /\ report_placeholder' = Bound(Markdown(output))
    /\ download_button' = Bound(DownloadButton(output, research_topic))
    /\ pc' = "done"
    /\ ScriptUnchanged
    /\ UNCHANGED <<spinners, display, runner_calls, research_result,
                   initial_report, fire_crawl_app, crawl_request, result, tool_e,
                   tool_returns, activity_count>>

Next ==
    \/ \E v \in Keys : EditGoogleKey(v)
    \/ \E v \in Keys : EditFirecrawlKey(v)
    \/ \E v \in Topics : EditTopic(v)
    \/ PressButton
    \/ \E msg \in Messages : ToolConstructRaise(msg)
    \/ \E args \in ToolArgs(research_topic) : ToolCrawlStart(args)
    \/ \E activity \in Activities : CrawlActivity(activity)
    \/ \E msg \in Messages : CrawlRaise(msg)
    \/ \E response \in Responses : CrawlReturn(response)
    \/ \E output \in Reports : Agent1Return(output)
    \/ \E msg \in Messages : Agent1Raise(msg)
    \/ \E output \in Reports : Agent2Return(output)
    \/ \E msg \in Messages : Agent2Raise(msg)

Spec == Init /\ [][Next]_vars

---------------------------------------------------------------------------
\* Properties.

Last(s) == s[Len(s)]
Elements(s) == {s[i] : i \in 1..Len(s)}
Agent2Invoked == \E i \in 1..Len(runner_calls) : runner_calls[i].agent = "elaborative_agent"
InFlight == pc \in {"agent1", "crawl", "agent2"}
HandlerErrors == {i \in 1..Len(display) : display[i] \in {HandlerError(m) : m \in Messages}}
InitialReportShown ==
    \E e \in Elements(display) : e.kind = "expander"

\* C1: agent 2 is invoked only after agent 1 has completed in the same run; a
\* run that failed in agent 1 has no agent-2 invocation.
C1_Agent2OnlyAfterAgent1 ==
    /\ Agent2Invoked =>
          /\ research_result.bound
          /\ runner_calls[1].agent = "research_agent"
    /\ (pc = "failed" /\ ~research_result.bound) => ~Agent2Invoked

C1_Witness ==
    pc = "failed" /\ ~research_result.bound /\ Len(runner_calls) = 1

\* C2: agent 1 is invoked with exactly the topic, agent 2 with an input that
\* contains the topic and agent 1's output, and the value returned (and shown)
\* is exactly agent 2's output.
C2_PipelineDataFlow ==
    /\ runner_calls /= <<>> =>
          /\ runner_calls[1].agent = "research_agent"
          /\ runner_calls[1].input = research_topic
    /\ Len(runner_calls) >= 2 =>
          /\ runner_calls[2].agent = "elaborative_agent"
          /\ research_result.bound
          /\ Contains(runner_calls[2].input, research_topic)
          /\ Contains(runner_calls[2].input, research_result.val.final_output)
    /\ pc = "done" =>
          /\ elaboration_result.bound
          /\ enhanced_report = Bound(elaboration_result.val.final_output)

C2_Witness ==
    /\ pc = "done"
    /\ research_topic = <<"AI", " ", "trends">>
    /\ research_result = Bound([final_output |-> <<"REPORT A">>])
    /\ enhanced_report = Bound(<<"REPORT B">>)

\* C3: an exception in the tool (client construction, service call, progress
\* callback, extraction) never leaves it: the error is shown, the record
\* {error: message, success: False} is returned to the agent runtime, and the
\* run is still inside agent 1 afterwards.
C3_Caught ==
    tool_e.bound =>
        /\ tool_returns /= <<>>
        /\ Last(tool_returns) = [error |-> tool_e.val, success |-> FALSE]
        /\ Error(<<"Deep research error: ", tool_e.val>>) \in Elements(display)

C3_Continues ==
    /\ pc = "crawl" => pc' \in {"crawl", "agent1"}
    /\ (pc = "agent1" /\ tool_e' /= tool_e /\ tool_e'.bound) => pc' = "agent1"

C3_AdapterNeverPropagates == [](C3_Caught) /\ [][C3_Continues]_vars

C3_Witness ==
    /\ pc = "agent2"
    /\ result.bound
    /\ tool_e.bound
    /\ Last(tool_returns).success = FALSE

\* What the claim C4 expects of a response.
HasData(resp) == resp.type = "dict" /\ "data" \in DOMAIN resp.items
HasField(resp, key) ==
    /\ HasData(resp)
    /\ resp.items["data"].type = "dict"
    /\ key \in DOMAIN resp.items["data"].items
ExpectedAnalysis(resp) ==
    IF HasField(resp, "final_analysis")
    THEN resp.items["data"].items["final_analysis"]
    ELSE Str(<<"No final analysis available">>)
ExpectedSources(resp) ==
    IF HasField(resp, "sources") THEN resp.items["data"].items["sources"] ELSE List(<<>>)
SuccessAsClaimed(resp, rec) ==
    /\ rec.success
    /\ rec.final_analysis = ExpectedAnalysis(resp)
    /\ rec.sources = ExpectedSources(resp)
    /\ rec.sources.type = "list"
    /\ rec.source_count = Len(rec.sources.elems)
    /\ ~HasData(resp) =>
          rec = [success |-> TRUE,
                 final_analysis |-> Str(<<"No final analysis available">>),
                 source_count |-> 0,
                 sources |-> List(<<>>)]
WellFormed(resp) ==
    /\ resp.type = "dict"
    /\ HasData(resp) => resp.items["data"].type = "dict"
    /\ HasField(resp, "sources") => resp.items["data"].items["sources"].type = "list"

\* C4 as stated: every response the service returns without raising yields
\* success=True with the analysis, the sources (or their defaults) and
\* source_count = len(sources).
C4_EveryResponseSucceeds ==
    result.bound => SuccessAsClaimed(result.val, Last(tool_returns))

\* C4 as amended: the same, for the responses that are a mapping whose data,
\* when present, is a mapping and whose data.sources, when present, is a list.
C4_WellFormedResponseSucceeds ==
    (result.bound /\ WellFormed(result.val)) =>
        SuccessAsClaimed(result.val, Last(tool_returns))

C4_Witness ==
    /\ result = Bound(Dict(EmptyItems))
    /\ pc = "agent1"
    /\ Last(tool_returns).success
    /\ Last(tool_returns).source_count = 0

\* C5: the button is enabled exactly when the two key fields and the topic
\* field are non-empty, and a run has started only with all three non-empty.
C5_ButtonGate ==
    /\ ~button_disabled <=>
          (google_api_key /= "" /\ firecrawl_api_key /= "" /\ research_topic /= <<>>)
    /\ runner_calls /= <<>> =>
          (google_api_key /= "" /\ firecrawl_api_key /= "" /\ research_topic /= <<>>)

C5_Witness ==
    pc = "agent1" /\ ~button_disabled /\ Len(runner_calls) = 1

\* C6: an exception of an agent invocation is caught once by the handler: one
\* error message is appended to what the page already shows, and neither the
\* enhanced report nor the download control is shown.
C6_Aborted ==
    /\ pc = "failed" =>
          /\ Cardinality(HandlerErrors) = 1
          /\ Last(display) \in {HandlerError(m) : m \in Messages}
          /\ report_placeholder = Bound(None)
          /\ download_button = Unset
          /\ enhanced_report = Unset
    /\ pc /= "failed" => HandlerErrors = {}

C6_KeepsDisplayed ==
    (pc \in {"agent1", "agent2"} /\ pc' = "failed") =>
        \E m \in Messages : display' = Append(display, HandlerError(m))

C6_HandlerCatchesOnce == [](C6_Aborted) /\ [][C6_KeepsDisplayed]_vars

C6_Witness ==
    pc = "failed" /\ initial_report.bound /\ InitialReportShown

\* C7: a run is one pass INITIAL_RESEARCH -> ELABORATION -> DONE: each agent is
\* invoked at most once and in this order, nothing is re-entered, the initial
\* report is on the page once agent 2 is invoked, and the final report and the
\* download control are shown only when the run is done.
PcSteps ==
    ({"rendered", "done", "failed"} \X {"rendered", "agent1"})
    \cup { <<"agent1", "crawl">>, <<"crawl", "agent1">>, <<"agent1", "agent2">>,
           <<"agent1", "failed">>, <<"agent2", "done">>, <<"agent2", "failed">> }

C7_OnePass ==
    /\ Len(runner_calls) <= 2
    /\ Len(runner_calls) >= 1 => runner_calls[1].agent = "research_agent"
    /\ Len(runner_calls) = 2 => runner_calls[2].agent = "elaborative_agent"
    /\ pc \in {"agent1", "crawl"} => Len(runner_calls) = 1
    /\ pc \in {"agent2", "done"} => Len(runner_calls) = 2
    /\ Len(runner_calls) = 2 =>
          /\ research_result.bound
          /\ Expander(ExpanderLabel, research_result.val.final_output)
                \in Elements(display)
    /\ InitialReportShown => research_result.bound
    /\ (report_placeholder \notin {Unset, Bound(None)} \/ download_button.bound) =>
          /\ pc = "done"
          /\ elaboration_result.bound
    /\ pc = "done" =>
          /\ report_placeholder = Bound(Markdown(enhanced_report.val))
          /\ download_button.bound

C7_Forward ==
    /\ pc' /= pc => <<pc, pc'>> \in PcSteps
    /\ Len(runner_calls') <= Len(runner_calls) + 1
    /\ (pc \in {"rendered", "done", "failed"} /\ pc' = "agent1") =>
          Len(runner_calls') = 1

C7_LinearPipeline == [](C7_OnePass) /\ [][C7_Forward]_vars

C7_Witness ==
    pc = "done" /\ Len(runner_calls) = 2 /\ InitialReportShown

\* C8: whenever an external call is in flight (agent 1, the crawl service,
\* agent 2), a spinner is active.
C8_SpinnerWhileInFlight ==
    InFlight => spinners /= <<>>

\* C9 as stated: each stored credential equals the content of its field.
C9_StoredEqualsField ==
    /\ session_state.google_api_key = google_api_key
    /\ session_state.firecrawl_api_key = firecrawl_api_key

\* C9 as amended: the stored credentials start empty; a script run with a
\* non-empty field stores that field, and one with an empty field leaves the
\* stored credential as it was.
C9_NonEmptyStored ==
    /\ google_api_key /= "" => session_state.google_api_key = google_api_key
    /\ firecrawl_api_key /= "" => session_state.firecrawl_api_key = firecrawl_api_key

C9_EmptyKeeps ==
    /\ google_api_key' = "" => session_state'.google_api_key = session_state.google_api_key
    /\ firecrawl_api_key' = "" =>
          session_state'.firecrawl_api_key = session_state.firecrawl_api_key

C9_StoredIsLastNonEmpty ==
    /\ session_state = [google_api_key |-> "", firecrawl_api_key |-> ""]
    /\ [](C9_NonEmptyStored)
    /\ [][C9_EmptyKeeps]_vars

C9_Witness ==
    /\ google_api_key = ""
    /\ session_state.google_api_key = "k1"
    /\ firecrawl_api_key = "k2"
    /\ session_state.firecrawl_api_key = "k2"

\* C10: the keys the external clients of a run are built with are non-empty
\* and are the ones in the two key fields.
C10_RunUsesEnteredKeys ==
    /\ \A i \in 1..Len(runner_calls) :
          /\ runner_calls[i].api_key /= ""
          /\ runner_calls[i].api_key = google_api_key
    /\ fire_crawl_app.bound =>
          /\ fire_crawl_app.val.api_key /= ""
          /\ fire_crawl_app.val.api_key = firecrawl_api_key
    /\ runner_calls /= <<>> =>
          /\ external_client.api_key = google_api_key
          /\ session_state.firecrawl_api_key = firecrawl_api_key

C10_Witness ==
    /\ pc = "crawl"
    /\ runner_calls[1].api_key = "k2"
    /\ fire_crawl_app = Bound([api_key |-> "k2"])
====
